---- MODULE Spec2Model ----
(***************************************************************************)
(* A model of arya_common: the RAG notification client (rag_notify.py) and *)
(* the JSONL writer (storage.py).                                          *)
(*                                                                         *)
(* Conventions                                                             *)
(*  - Optional[T] is a sequence: <<>> is None, <<v>> is the value v.       *)
(*  - Durations are integers in milliseconds (0.5 s is 500).               *)
(*  - Text handled character by character (URIs, lines, compression names) *)
(*    is a sequence of Unicode code points; bytes are integers 0..255.     *)
(***************************************************************************)
EXTENDS Integers, Sequences, FiniteSets, TLC

\* TLC orders the fields of a record by the first occurrence of their names.
\* Every field name is listed here once, alphabetically, and every record
\* below lists its fields alphabetically, so records are built in that order.
RecordFields ==
    [after_attempt |-> 0, api_key |-> 0, attempt |-> 0, backoff_base |-> 0,
     base_url |-> 0, body |-> 0, bucket |-> 0, call |-> 0, checksum |-> 0,
     compression |-> 0, compression_arg |-> 0, count |-> 0, data |-> 0, dirs |-> 0, env_api_key |-> 0,
     env_base_url |-> 0, error |-> 0,
     event |-> 0, exc |-> 0, files |-> 0, fs |-> 0, headers |-> 0,
     idem_arg |-> 0, idem_key |-> 0, io |-> 0, json |-> 0, json_payload |-> 0, key |-> 0, kind |-> 0,
     kwargs |-> 0, lines |-> 0, log |-> 0,
     max_retries |-> 0, meeting_id |-> 0, metadata |-> 0, millis |-> 0,
     msg |-> 0, mtime |-> 0, notifier |-> 0, object_uri |-> 0, op |-> 0,
     org_id |-> 0, outcome |-> 0, path |-> 0, pc |-> 0, raised |-> 0,
     result |-> 0, scheme |-> 0, script |-> 0, sleeps |-> 0,
     slept_before |-> 0, started_at |-> 0, status |-> 0, timeout |-> 0,
     title |-> 0, type |-> 0, url |-> 0, uuid |-> 0, value |-> 0,
     version |-> 0]

VARIABLES
    transport,   \* what the remote answers to the i-th POST of the call in progress
    n_init,      \* the arguments and environment RAGNotifier(...) was given
    n_self,      \* the constructed RAGNotifier: base_url, api_key, timeout
    n_pc,        \* "idle" | "loop" | "sleep" | "done"
    n_call,      \* arguments handed to _post_with_retry
    n_attempt,   \* the value of `attempt` in the for-loop
    n_log,       \* history: the POST requests made, with their outcomes
    n_sleeps,    \* history: the time.sleep calls made
    n_result,    \* how the notify call ended
    w_pc,        \* "idle" | "done"
    w_args,      \* the arguments of the write_jsonl call
    w_io,        \* history: file-system and S3 operations performed
    w_fs,        \* the local file system: directories and files
    w_result,    \* how the write_jsonl call ended
    e_pc,        \* "idle" | "done"
    e_args,      \* the arguments of the encode_lines call
    e_out,       \* what encode_lines returned or raised
    notifiers,   \* the RAGNotifier objects concurrent callers share
    threads      \* per concurrent caller: the frame of its notify call

notify_vars == <<transport, n_init, n_self, n_pc, n_call, n_attempt, n_log, n_sleeps, n_result>>
writer_vars == <<w_pc, w_args, w_io, w_fs, w_result>>

encode_vars == <<e_pc, e_args, e_out>>

thread_vars == <<notifiers, threads>>

vars == <<notify_vars, writer_vars, encode_vars, thread_vars>>

----------------------------------------------------------------------------
(* Bounds *)

\* largest max_retries a caller passes in the model
MaxRetries == 4

----------------------------------------------------------------------------
(* Optional values *)

None == <<>>
Some(v) == <<v>>

\* Python truthiness of an Optional[str]: None and "" are falsy
truthy_str(opt) == opt # None /\ opt[1] # ""

----------------------------------------------------------------------------
(* The HTTP transport (httpx) as seen by one call *)

Response(s) == [exc |-> FALSE, status |-> s]
\* client.post raised (timeout, connection error): there is no status
TransportException == [exc |-> TRUE, status |-> 0]

AcceptedOutcomes == {Response(200), Response(299), Response(409)}
FailedOutcomes == {Response(300), Response(500), TransportException}
Outcomes == AcceptedOutcomes \cup FailedOutcomes

\* The answers the remote would give to attempts 1..n of one call.  The code
\* never asks again after an accepted answer, so the answers after the first
\* accepted one are fixed to 200.
Scripts(n) ==
    {s \in [1..n -> Outcomes] :
        \A i \in 1..n : \A j \in 1..n :
            (i < j /\ s[i] \in AcceptedOutcomes) => s[j] = Response(200)}

----------------------------------------------------------------------------
(* RAGNotifier *)

MaxRetriesArgs == (0 - 1)..MaxRetries
\* backoff_base in milliseconds; time.sleep rejects negative durations,
\* which are outside the model
BackoffBases == {500, 1000}
IdemKeyArgs == {None, Some(""), Some("caller-key")}
UUIDs == {"uuid-1", "uuid-2"}
ApiKeys == {"", "secret"}
TitleArgs == {None, Some("Weekly sync")}
StartedAtArgs == {None, Some("2024-05-01T09:00:00Z")}
MetadataArgs == {None, Some({}), Some({<<"lang", "tr">>})}

\* _headers
headers_without_idem(api_key, idem) ==
    LET names == {"Content-Type"}
                 \cup (IF api_key # "" THEN {"Authorization"} ELSE {})
    IN [h \in names |->
            IF h = "Content-Type" THEN <<"application/json">>
            ELSE <<"Bearer", api_key>>]

headers(api_key, idem) ==
    LET names == {"Content-Type"}
                 \cup (IF api_key # "" THEN {"Authorization"} ELSE {})
                 \cup (IF truthy_str(idem) THEN {"Idempotency-Key"} ELSE {})
    IN [h \in names |->
            IF h = "Content-Type" THEN <<"application/json">>
            ELSE IF h = "Authorization" THEN <<"Bearer", api_key>>
            ELSE <<idem[1]>>]

\* idem = idem_key or str(uuid.uuid4())
idem_or_uuid(idem_key, uuid) == IF truthy_str(idem_key) THEN idem_key[1] ELSE uuid

\* metadata or {}
metadata_or_empty(metadata) ==
    IF metadata # None /\ metadata[1] # {} THEN metadata[1] ELSE {}

STR_BASE_URL == <<104, 116, 116, 112, 58, 47, 47, 114>>     \* "http://r"
STR_BASE_URL_2 == <<104, 116, 116, 112, 58, 47, 47, 115>>   \* "http://s"
\* "/meetings/notify"
STR_NOTIFY_PATH ==
    <<47, 109, 101, 101, 116, 105, 110, 103, 115, 47, 110, 111, 116, 105, 102, 121>>

\* f"{self.base_url}/meetings/notify"
notify_url(base_url) == base_url \o STR_NOTIFY_PATH

NoCall == [event |-> "none"]
NoResult == [kind |-> "none"]

\* the response statuses on which _post_with_retry returns
status_ok_only_2xx(status) == 200 <= status /\ status < 300

status_ok(status) ==
    \/ (200 <= status /\ status < 300)
    \/ status = 409

\* `if attempt == max_retries: raise`
is_last_attempt_early(attempt, max_retries) == attempt >= max_retries - 1

is_last_attempt_never(attempt, max_retries) == FALSE

is_last_attempt(attempt, max_retries) == attempt = max_retries

\* backoff_base * (2 ** (attempt - 1))
backoff_linear(backoff_base, attempt) == backoff_base * attempt

backoff(backoff_base, attempt) == backoff_base * (2 ^ (attempt - 1))

\* the exception an attempt ends with when it is not accepted
attempt_error(outcome) ==
    IF outcome.exc
    THEN [status |-> 0, type |-> "TransportError"]
    ELSE [status |-> outcome.status, type |-> "RuntimeError"]

\* the payload dict of notify_meeting_created
meeting_created_payload_without_metadata(meeting_id, org_id, title, started_at, metadata) ==
    [meeting_id |-> meeting_id,
     org_id |-> org_id,
     started_at |-> started_at,
     title |-> title,
     type |-> "meeting_created"]

meeting_created_payload(meeting_id, org_id, title, started_at, metadata) ==
    [meeting_id |-> meeting_id,
     metadata |-> metadata_or_empty(metadata),
     org_id |-> org_id,
     started_at |-> started_at,
     title |-> title,
     type |-> "meeting_created"]

\* the payload dict of notify_finalize_ready
finalize_ready_payload(meeting_id, org_id, object_uri, version, count, checksum) ==
    [checksum |-> checksum,
     count |-> count,
     meeting_id |-> meeting_id,
     object_uri |-> object_uri,
     org_id |-> org_id,
     type |-> "finalize_ready",
     version |-> version]

\* the locals of one notify call as it enters _post_with_retry;
\* kwargs: the event fields the caller passed to notify_*, None where omitted
post_with_retry_args(self, event, kwargs, payload, idem_key, uuid, max_retries, backoff_base) ==
    [backoff_base |-> backoff_base,
     event |-> event,
     idem_key |-> idem_or_uuid(idem_key, uuid),
     json_payload |-> payload,
     kwargs |-> kwargs,
     max_retries |-> max_retries,
     url |-> notify_url(self.base_url)]

enter_post_with_retry(event, kwargs, payload, idem_key, uuid, max_retries, backoff_base) ==
    /\ n_call' = post_with_retry_args(n_self, event, kwargs, payload, idem_key, uuid,
                                      max_retries, backoff_base)
    /\ transport' \in Scripts(max_retries)
    /\ n_attempt' = 1
    /\ n_pc' = "loop"
    /\ UNCHANGED <<n_init, n_self, n_log, n_sleeps, n_result, writer_vars, encode_vars, thread_vars>>

call_notify_meeting_created ==
    \E title \in TitleArgs, started_at \in StartedAtArgs, metadata \in MetadataArgs,
       idem_key \in IdemKeyArgs, uuid \in UUIDs,
       max_retries \in MaxRetriesArgs, backoff_base \in BackoffBases :
        enter_post_with_retry(
            "meeting_created",
            [meeting_id |-> "m-1",
             metadata |-> metadata,
             org_id |-> "org-1",
             started_at |-> started_at,
             title |-> title],
            meeting_created_payload("m-1", "org-1", title, started_at, metadata),
            idem_key, uuid, max_retries, backoff_base)

\* RAGNotifier.notify_meeting_created on a constructed notifier
notify_meeting_created ==
    /\ n_pc = "idle"
    /\ call_notify_meeting_created

call_notify_finalize_ready ==
    \E idem_key \in IdemKeyArgs, uuid \in UUIDs,
       max_retries \in MaxRetriesArgs, backoff_base \in BackoffBases :
        enter_post_with_retry(
            "finalize_ready",
            [checksum |-> "sha256",
             count |-> 3,
             meeting_id |-> "m-1",
             object_uri |-> "s3://bucket/final.jsonl",
             org_id |-> "org-1",
             version |-> 1],
            finalize_ready_payload("m-1", "org-1", "s3://bucket/final.jsonl", 1, 3, "sha256"),
            idem_key, uuid, max_retries, backoff_base)

\* RAGNotifier.notify_finalize_ready on a constructed notifier
notify_finalize_ready ==
    /\ n_pc = "idle"
    /\ call_notify_finalize_ready

\* one iteration of the for-loop up to its return, raise or sleep
post_attempt ==
    /\ n_pc = "loop"
    /\ n_attempt <= n_call.max_retries
    /\ LET outcome == transport[n_attempt]
           accepted == ~outcome.exc /\ status_ok(outcome.status)
       IN /\ n_log' = Append(n_log,
                        [attempt |-> n_attempt,
                         headers |-> headers(n_self.api_key, Some(n_call.idem_key)),
                         json |-> n_call.json_payload,
                         outcome |-> outcome,
                         slept_before |-> Len(n_sleeps),
                         url |-> n_call.url])
          /\ IF accepted
             THEN /\ n_pc' = "done"
                  /\ n_result' = [kind |-> "returned"]
             ELSE IF is_last_attempt(n_attempt, n_call.max_retries)
             THEN /\ n_pc' = "done"
                  /\ n_result' = [error |-> attempt_error(outcome), kind |-> "raised"]
             ELSE /\ n_pc' = "sleep"
                  /\ n_result' = n_result
    /\ UNCHANGED <<transport, n_init, n_self, n_call, n_attempt, n_sleeps, writer_vars, encode_vars, thread_vars>>

\* time.sleep(...) returns and the loop takes the next value of the range
backoff_sleep ==
    /\ n_pc = "sleep"
    /\ n_sleeps' = Append(n_sleeps,
                      [after_attempt |-> n_attempt,
                       millis |-> backoff(n_call.backoff_base, n_attempt)])
    /\ n_attempt' = n_attempt + 1
    /\ n_pc' = "loop"
    /\ UNCHANGED <<transport, n_init, n_self, n_call, n_log, n_result, writer_vars, encode_vars, thread_vars>>

\* range(1, max_retries + 1) is exhausted: the function falls off its end
loop_exhausted ==
    /\ n_pc = "loop"
    /\ n_attempt > n_call.max_retries
    /\ n_pc' = "done"
    /\ n_result' = [kind |-> "returned"]
    /\ UNCHANGED <<transport, n_init, n_self, n_call, n_attempt, n_log, n_sleeps, writer_vars, encode_vars, thread_vars>>

\* the state after RAGNotifier(base_url="http://r", api_key=...)
NotifierConstructed ==
    /\ transport = <<>>
    /\ n_self \in [api_key : ApiKeys,
                   base_url : {STR_BASE_URL},
                   timeout : {10000}]
    /\ n_init = [api_key |-> Some(n_self.api_key),
                 base_url |-> Some(STR_BASE_URL),
                 env_api_key |-> None,
                 env_base_url |-> None,
                 timeout |-> 10000]
    /\ n_pc = "idle"
    /\ n_call = NoCall
    /\ n_attempt = 0
    /\ n_log = <<>>
    /\ n_sleeps = <<>>
    /\ n_result = NoResult

----------------------------------------------------------------------------
(* Concurrent callers: each runs one notify call, on a RAGNotifier that     *)
(* another caller may be using as well.  A call's locals live in its frame. *)

ThreadIds == {1, 2}
NotifierIds == {1, 2}

\* largest max_retries a concurrent caller passes
MaxThreadRetries == 2

ThreadRetriesArgs == 0..MaxThreadRetries
ThreadIdemKeyArgs == {None, Some("caller-key")}
ThreadOutcomes == {Response(200), Response(500)}
ThreadScripts(n) == {s \in Scripts(n) : \A i \in 1..n : s[i] \in ThreadOutcomes}

\* the meeting each caller reports
ThreadMeetings == <<"m-1", "m-2">>

\* RAGNotifier(base_url=..., api_key=...) objects constructed before the calls
SharedNotifiers ==
    <<[api_key |-> "secret", base_url |-> STR_BASE_URL, timeout |-> 10000],
      [api_key |-> "", base_url |-> STR_BASE_URL_2, timeout |-> 10000]>>

NoThreadCall ==
    [backoff_base |-> 0, event |-> "none", idem_key |-> "",
     json_payload |-> [type |-> "none"], kwargs |-> [meeting_id |-> ""],
     max_retries |-> 0, url |-> <<>>]

IdleFrame ==
    [attempt |-> 0, call |-> NoThreadCall, idem_arg |-> None, log |-> <<>>,
     notifier |-> 0, pc |-> "idle", result |-> NoResult, script |-> <<>>,
     sleeps |-> <<>>, uuid |-> ""]

\* str(uuid.uuid4()): a value no other call has drawn
fresh_uuids(frames, t) == UUIDs \ {frames[u].uuid : u \in ThreadIds \ {t}}

\* client.post(url, json=json_payload, headers=self._headers(idem_key)):
\* the request of caller t, built from the locals of t's own call
attempt_request_of_first_active(frames, objs, t) ==
    LET me == frames[CHOOSE u \in ThreadIds : frames[u].pc # "idle"]
    IN [headers |-> headers(objs[me.notifier].api_key, Some(me.call.idem_key)),
        json |-> me.call.json_payload,
        url |-> me.call.url]

attempt_request(frames, objs, t) ==
    LET me == frames[t]
    IN [headers |-> headers(objs[me.notifier].api_key, Some(me.call.idem_key)),
        json |-> me.call.json_payload,
        url |-> me.call.url]

thread_enter_post_with_retry(t, nid, event, kwargs, payload, idem_key, max_retries, backoff_base) ==
    \E uuid \in (IF truthy_str(idem_key) THEN {""} ELSE fresh_uuids(threads, t)),
       script \in ThreadScripts(max_retries) :
        /\ threads' = [threads EXCEPT ![t] =
                [attempt |-> 1,
                 call |-> post_with_retry_args(notifiers[nid], event, kwargs, payload,
                                               idem_key, uuid, max_retries, backoff_base),
                 idem_arg |-> idem_key,
                 log |-> <<>>,
                 notifier |-> nid,
                 pc |-> "loop",
                 result |-> NoResult,
                 script |-> script,
                 sleeps |-> <<>>,
                 uuid |-> uuid]]
        /\ UNCHANGED <<notifiers, notify_vars, writer_vars, encode_vars>>

thread_notify_meeting_created(t) ==
    /\ threads[t].pc = "idle"
    /\ \E nid \in NotifierIds, idem_key \in ThreadIdemKeyArgs,
          max_retries \in ThreadRetriesArgs :
        thread_enter_post_with_retry(
            t, nid, "meeting_created",
            [meeting_id |-> ThreadMeetings[t],
             metadata |-> None,
             org_id |-> "org-1",
             started_at |-> None,
             title |-> None],
            meeting_created_payload(ThreadMeetings[t], "org-1", None, None, None),
            idem_key, max_retries, 500)

thread_notify_finalize_ready(t) ==
    /\ threads[t].pc = "idle"
    /\ \E nid \in NotifierIds, idem_key \in ThreadIdemKeyArgs,
          max_retries \in ThreadRetriesArgs :
        thread_enter_post_with_retry(
            t, nid, "finalize_ready",
            [checksum |-> "sha256",
             count |-> 3,
             meeting_id |-> ThreadMeetings[t],
             object_uri |-> "s3://bucket/final.jsonl",
             org_id |-> "org-1",
             version |-> 1],
            finalize_ready_payload(ThreadMeetings[t], "org-1", "s3://bucket/final.jsonl",
                                   1, 3, "sha256"),
            idem_key, max_retries, 500)

\* one iteration of caller t's for-loop up to its return, raise or sleep
thread_post_attempt(t) ==
    LET me == threads[t]
        outcome == me.script[me.attempt]
        accepted == ~outcome.exc /\ status_ok(outcome.status)
        request == attempt_request(threads, notifiers, t)
        sent == Append(me.log,
                    [attempt |-> me.attempt,
                     headers |-> request.headers,
                     json |-> request.json,
                     outcome |-> outcome,
                     slept_before |-> Len(me.sleeps),
                     url |-> request.url])
    IN /\ me.pc = "loop"
       /\ me.attempt <= me.call.max_retries
       /\ threads' = [threads EXCEPT ![t] =
               IF accepted
               THEN [me EXCEPT !.log = sent, !.pc = "done",
                               !.result = [kind |-> "returned"]]
               ELSE IF is_last_attempt(me.attempt, me.call.max_retries)
               THEN [me EXCEPT !.log = sent, !.pc = "done",
                               !.result = [error |-> attempt_error(outcome),
                                           kind |-> "raised"]]
               ELSE [me EXCEPT !.log = sent, !.pc = "sleep"]]
       /\ UNCHANGED <<notifiers, notify_vars, writer_vars, encode_vars>>

thread_backoff_sleep(t) ==
    LET me == threads[t]
    IN /\ me.pc = "sleep"
       /\ threads' = [threads EXCEPT ![t] =
               [me EXCEPT !.sleeps = Append(me.sleeps,
                                        [after_attempt |-> me.attempt,
                                         millis |-> backoff(me.call.backoff_base, me.attempt)]),
                          !.attempt = me.attempt + 1,
                          !.pc = "loop"]]
       /\ UNCHANGED <<notifiers, notify_vars, writer_vars, encode_vars>>

thread_loop_exhausted(t) ==
    LET me == threads[t]
    IN /\ me.pc = "loop"
       /\ me.attempt > me.call.max_retries
       /\ threads' = [threads EXCEPT ![t] =
               [me EXCEPT !.pc = "done", !.result = [kind |-> "returned"]]]
       /\ UNCHANGED <<notifiers, notify_vars, writer_vars, encode_vars>>

ThreadsIdle ==
    /\ notifiers = SharedNotifiers
    /\ threads = [t \in ThreadIds |-> IdleFrame]

----------------------------------------------------------------------------
(* Text and bytes (storage.py) *)
(* Strings hold Unicode scalar values: str.encode("utf-8") rejects lone     *)
(* surrogates, which are outside the model.                                 *)

\* largest number of lines handed to encode_lines
MaxLines == 3
\* longest text after the scheme prefix of a destination URI
MaxRest == 3

SLASH == 47
NEWLINE == 10

STR_S3_PREFIX == <<115, 51, 58, 47, 47>>          \* "s3://"
STR_OUT_PREFIX == <<111, 117, 116, 58, 47, 47>>   \* "out://"
STR_FTP_PREFIX == <<102, 116, 112, 58, 47, 47>>   \* "ftp://"
STR_NONE == <<110, 111, 110, 101>>                \* "none"
STR_GZIP == <<103, 122, 105, 112>>                \* "gzip"
STR_ZSTD == <<122, 115, 116, 100>>                \* "zstd"
STR_DOT == <<46>>                                 \* "."

\* what a function call gives back: a value, or an exception
Return(v) == [raised |-> FALSE, value |-> v]
Raise(type, msg) == [error |-> [msg |-> msg, type |-> type], raised |-> TRUE]

\* all sequences over S of length at most n
RECURSIVE SeqsUpTo(_, _)
SeqsUpTo(S, n) ==
    IF n = 0 THEN {<<>>}
    ELSE LET shorter == SeqsUpTo(S, n - 1)
         IN shorter \cup {Append(q, x) : q \in {r \in shorter : Len(r) = n - 1}, x \in S}

\* str.startswith
startswith(str, prefix) ==
    Len(str) >= Len(prefix) /\ SubSeq(str, 1, Len(prefix)) = prefix

\* str.split(sep, 1): at most one split, at the first separator
split_once(str, sep) ==
    LET at == {i \in 1..Len(str) : str[i] = sep}
    IN IF at = {} THEN <<str>>
       ELSE LET i == CHOOSE k \in at : \A m \in at : k <= m
            IN <<SubSeq(str, 1, i - 1), SubSeq(str, i + 1, Len(str))>>

\* str.lower on the code points of Latin-1
lower_cp(c) ==
    IF c \in 65..90 THEN c + 32
    ELSE IF c \in 192..222 /\ c # 215 THEN c + 32
    ELSE c

lower(str) == [i \in 1..Len(str) |-> lower_cp(str[i])]

\* the code points str.isspace accepts
Whitespace ==
    {9, 10, 11, 12, 13, 28, 29, 30, 31, 32, 133, 160, 5760, 8232, 8233, 8239, 8287, 12288}
    \cup (8192..8202)

\* str.strip
strip(str) ==
    LET keep == {i \in 1..Len(str) : str[i] \notin Whitespace}
    IN IF keep = {} THEN <<>>
       ELSE SubSeq(str,
                   CHOOSE k \in keep : \A m \in keep : k <= m,
                   CHOOSE k \in keep : \A m \in keep : k >= m)

\* sep.join(strs)
RECURSIVE str_join_no_sep(_, _)
str_join_no_sep(sep, strs) ==
    IF strs = <<>> THEN <<>> ELSE strs[1] \o str_join_no_sep(sep, Tail(strs))

RECURSIVE str_join(_, _)
str_join(sep, strs) ==
    IF strs = <<>> THEN <<>>
    ELSE IF Len(strs) = 1 THEN strs[1]
    ELSE strs[1] \o sep \o str_join(sep, Tail(strs))

\* one code point in UTF-8
utf8_cp(c) ==
    IF c < 128 THEN <<c>>
    ELSE IF c < 2048 THEN <<192 + (c \div 64), 128 + (c % 64)>>
    ELSE IF c < 65536 THEN
        <<224 + (c \div 4096), 128 + ((c \div 64) % 64), 128 + (c % 64)>>
    ELSE <<240 + (c \div 262144), 128 + ((c \div 4096) % 64),
           128 + ((c \div 64) % 64), 128 + (c % 64)>>

\* str.encode("utf-8")
RECURSIVE utf8_encode(_)
utf8_encode(text) ==
    IF text = <<>> THEN <<>> ELSE utf8_cp(Head(text)) \o utf8_encode(Tail(text))

\* join_with_newlines
join_without_trailing_newline(lines) ==
    IF lines = <<>> THEN <<NEWLINE>> ELSE str_join(<<NEWLINE>>, lines)

join_with_newlines(lines) ==
    IF lines = <<>> THEN <<NEWLINE>>
    ELSE str_join(<<NEWLINE>>, lines) \o <<NEWLINE>>

----------------------------------------------------------------------------
(* gzip.GzipFile(fileobj=buf, mode="wb") *)

\* n as k little-endian bytes
RECURSIVE le_bytes(_, _)
le_bytes(n, k) == IF k = 0 THEN <<>> ELSE <<n % 256>> \o le_bytes(n \div 256, k - 1)

RECURSIVE xor_bits(_, _, _)
xor_bits(a, b, k) ==
    IF k = 0 THEN 0
    ELSE ((a + b) % 2) + 2 * xor_bits(a \div 2, b \div 2, k - 1)

xor8(a, b) == xor_bits(a, b, 8)

\* 32-bit words are four little-endian bytes
xor32(x, y) == [i \in 1..4 |-> xor8(x[i], y[i])]
shr1_32(x) == [i \in 1..4 |-> (x[i] \div 2) + (IF i < 4 THEN (x[i + 1] % 2) * 128 ELSE 0)]
shr8_32(x) == <<x[2], x[3], x[4], 0>>

\* the CRC-32 polynomial 0xEDB88320
CRC_POLY == <<32, 131, 184, 237>>

RECURSIVE crc_rounds(_, _)
crc_rounds(c, k) ==
    IF k = 0 THEN c
    ELSE crc_rounds(IF c[1] % 2 = 1 THEN xor32(shr1_32(c), CRC_POLY) ELSE shr1_32(c), k - 1)

crc_table == [b \in 0..255 |-> crc_rounds(<<b, 0, 0, 0>>, 8)]

RECURSIVE crc_update(_, _)
crc_update(c, bytes) ==
    IF bytes = <<>> THEN c
    ELSE crc_update(xor32(crc_table[xor8(c[1], Head(bytes))], shr8_32(c)), Tail(bytes))

\* zlib.crc32(raw), as four little-endian bytes
crc32(raw) == xor32(crc_update(<<255, 255, 255, 255>>, raw), <<255, 255, 255, 255>>)

\* the k low bits of n, most significant first
RECURSIVE msb_bits(_, _)
msb_bits(n, k) == IF k = 0 THEN <<>> ELSE msb_bits(n \div 2, k - 1) \o <<n % 2>>

\* the fixed Huffman code of a literal byte (RFC 1951, 3.2.6)
fixed_code(b) ==
    IF b < 144 THEN msb_bits(48 + b, 8) ELSE msb_bits(400 + (b - 144), 9)

RECURSIVE fixed_codes(_)
fixed_codes(raw) ==
    IF raw = <<>> THEN <<>> ELSE fixed_code(Head(raw)) \o fixed_codes(Tail(raw))

\* the code of the end-of-block symbol 256
END_OF_BLOCK == <<0, 0, 0, 0, 0, 0, 0>>

\* the value of bits, least significant first
RECURSIVE bits_value(_)
bits_value(bits) == IF bits = <<>> THEN 0 ELSE Head(bits) + 2 * bits_value(Tail(bits))

\* bits packed into bytes from the least significant bit up, zero padded
RECURSIVE pack_bits(_)
pack_bits(bits) ==
    IF bits = <<>> THEN <<>>
    ELSE IF Len(bits) <= 8 THEN <<bits_value(bits)>>
    ELSE <<bits_value(SubSeq(bits, 1, 8))>> \o pack_bits(SubSeq(bits, 9, Len(bits)))

\* The DEFLATE body zlib writes for a short input: one final block with the
\* fixed Huffman codes (BFINAL = 1, BTYPE = 01).  Every byte is coded as a
\* literal; where zlib would code a repetition as a back-reference the body
\* differs from zlib's but decodes to the same bytes.
deflate(raw) == pack_bits(<<1, 1, 0>> \o fixed_codes(raw) \o END_OF_BLOCK)

\* what the buffer holds while the GzipFile is still open: the header only
gzip_unclosed(raw, mtime) == <<31, 139, 8, 0>> \o le_bytes(mtime, 4) \o <<2, 255>>

\* header (magic, CM = 8, FLG = 0, MTIME, XFL = 2, OS = 255), body, CRC-32, ISIZE
gzip_compress(raw, mtime) ==
    <<31, 139, 8, 0>> \o le_bytes(mtime, 4) \o <<2, 255>>
        \o deflate(raw) \o crc32(raw) \o le_bytes(Len(raw), 4)

\* the clock readings GzipFile writes into MTIME
Mtimes == {1700000000, 1700000001}

----------------------------------------------------------------------------
(* encode_lines *)

encode_lines_unchecked(lines, compression, mtime) ==
    LET text == join_with_newlines(lines)
        raw == utf8_encode(text)
        comp == strip(lower(compression))
    IN IF comp = STR_GZIP THEN Return(gzip_compress(raw, mtime))
       ELSE Return(raw)

encode_lines(lines, compression, mtime) ==
    LET text == join_with_newlines(lines)
        raw == utf8_encode(text)
        comp == strip(lower(compression))
    IN IF comp = STR_NONE THEN Return(raw)
       ELSE IF comp = STR_GZIP THEN Return(gzip_compress(raw, mtime))
       ELSE Raise("ValueError", "Unsupported compression")

----------------------------------------------------------------------------
(* parse_uri, resolve_out_path, write_jsonl *)

parse_uri_any_split(uri) ==
    IF startswith(uri, STR_S3_PREFIX)
    THEN LET rest == SubSeq(uri, Len(STR_S3_PREFIX) + 1, Len(uri))
             parts == split_once(rest, SLASH)
         IN IF Len(parts) # 2
            THEN Return([bucket |-> rest, key |-> <<>>, scheme |-> "s3"])
            ELSE Return([bucket |-> parts[1], key |-> parts[2], scheme |-> "s3"])
    ELSE Raise("ValueError", "Non valid or unsupported URI")

parse_uri(uri) ==
    IF startswith(uri, STR_S3_PREFIX)
    THEN LET rest == SubSeq(uri, Len(STR_S3_PREFIX) + 1, Len(uri))
             parts == split_once(rest, SLASH)
         IN IF Len(parts) # 2 \/ parts[1] = <<>> \/ parts[2] = <<>>
            THEN Raise("ValueError", "S3 URI not valid")
            ELSE Return([bucket |-> parts[1], key |-> parts[2], scheme |-> "s3"])
    ELSE Raise("ValueError", "Non valid or unsupported URI")

\* os.getenv("ARYA_OUT_ROOT", ".")
OutRoots == {STR_DOT}

\* Path(root).joinpath(rel_path): an absolute rel_path replaces the root
resolve_out_path(root, rel_path) ==
    IF rel_path # <<>> /\ rel_path[1] = SLASH THEN rel_path
    ELSE root \o <<SLASH>> \o rel_path

\* the directories above a path
parents(path) ==
    LET cuts == {i \in 2..Len(path) : path[i] = SLASH}
    IN {SubSeq(path, 1, i - 1) : i \in cuts}

\* Path.parent: the path up to its last separator
parent(path) ==
    LET cuts == {i \in 2..Len(path) : path[i] = SLASH}
    IN IF cuts = {} THEN STR_DOT
       ELSE SubSeq(path, 1, (CHOOSE k \in cuts : \A m \in cuts : k >= m) - 1)

\* s3.put_object either stores the object or raises
S3Outcomes == {"stored", "ClientError"}

NoArgs == [object_uri |-> <<>>]
EmptyFs == [dirs |-> {}, files |-> {}]

\* write_jsonl with a second put_object after a failed one
write_jsonl_effect_retrying(object_uri, lines, compression, mtime, root, s3_outcome, fs) ==
    LET parsed == parse_uri(object_uri)
        payload == encode_lines(lines, compression, mtime)
    IN IF parsed.raised
       THEN [fs |-> fs, io |-> <<>>, result |-> parsed]
       ELSE IF payload.raised
       THEN [fs |-> fs, io |-> <<>>, result |-> payload]
       ELSE IF parsed.value.scheme = "out"
       THEN LET out_path == resolve_out_path(root, parsed.value.key)
            IN [fs |-> [dirs |-> fs.dirs \cup parents(out_path),
                        files |-> {f \in fs.files : f[1] # out_path}
                                  \cup {<<out_path, payload.value>>}],
                io |-> <<[op |-> "mkdir", path |-> parent(out_path)],
                         [data |-> payload.value, op |-> "write", path |-> out_path]>>,
                result |-> Return(None)]
       ELSE IF parsed.value.scheme = "s3"
       THEN [fs |-> fs,
             io |-> <<[op |-> "boto3.client"],
                      [body |-> payload.value,
                       bucket |-> parsed.value.bucket,
                       key |-> parsed.value.key,
                       op |-> "put_object",
                       outcome |-> s3_outcome]>>
                    \o (IF s3_outcome = "stored" THEN <<>>
                        ELSE <<[body |-> payload.value,
                                bucket |-> parsed.value.bucket,
                                key |-> parsed.value.key,
                                op |-> "put_object",
                                outcome |-> "stored"]>>),
             result |-> Return(None)]
       ELSE [fs |-> fs, io |-> <<>>,
             result |-> Raise("ValueError", "Unsupported URI scheme")]

\* The whole of write_jsonl: what it does (io), the file system after it (fs)
\* and how it ends (result).  `import boto3` at the top of the module has
\* succeeded, so the `boto3 is None` branch is never taken.
write_jsonl_effect(object_uri, lines, compression, mtime, root, s3_outcome, fs) ==
    LET parsed == parse_uri(object_uri)
        payload == encode_lines(lines, compression, mtime)
    IN IF parsed.raised
       THEN [fs |-> fs, io |-> <<>>, result |-> parsed]
       ELSE IF payload.raised
       THEN [fs |-> fs, io |-> <<>>, result |-> payload]
       ELSE IF parsed.value.scheme = "out"
       THEN LET out_path == resolve_out_path(root, parsed.value.key)
            IN [fs |-> [dirs |-> fs.dirs \cup parents(out_path),
                        files |-> {f \in fs.files : f[1] # out_path}
                                  \cup {<<out_path, payload.value>>}],
                io |-> <<[op |-> "mkdir", path |-> parent(out_path)],
                         [data |-> payload.value, op |-> "write", path |-> out_path]>>,
                result |-> Return(None)]
       ELSE IF parsed.value.scheme = "s3"
       THEN [fs |-> fs,
             io |-> <<[op |-> "boto3.client"],
                      [body |-> payload.value,
                       bucket |-> parsed.value.bucket,
                       key |-> parsed.value.key,
                       op |-> "put_object",
                       outcome |-> s3_outcome]>>,
             result |-> IF s3_outcome = "stored" THEN Return(None)
                        ELSE Raise(s3_outcome, "put_object failed")]
       ELSE [fs |-> fs, io |-> <<>>,
             result |-> Raise("ValueError", "Unsupported URI scheme")]

UriPrefixes == {STR_S3_PREFIX, STR_OUT_PREFIX, STR_FTP_PREFIX, <<>>}
UriRestAlphabet == {98, 107, SLASH}    \* "b", "k", "/"
DestinationUris == {p \o r : p \in UriPrefixes, r \in SeqsUpTo(UriRestAlphabet, MaxRest)}

\* "", "a", "b", "é", "é\n"
LineStrings == {<<>>, <<97>>, <<98>>, <<233>>, <<233, NEWLINE>>}
LineSeqs == SeqsUpTo(LineStrings, MaxLines)
\* the line sequences handed to write_jsonl: [], ["a"], ["a", "b"], ["é\n", ""]
WriterLineSeqs == {<<>>, <<<<97>>>>, <<<<97>>, <<98>>>>, <<<<233, NEWLINE>>, <<>>>>}

\* "none", "gzip", "zstd", "GZIP", " gzip\n", "None", ""
CompressionArgs ==
    {STR_NONE, STR_GZIP, STR_ZSTD, <<71, 90, 73, 80>>, <<32>> \o STR_GZIP \o <<NEWLINE>>,
     <<78, 111, 110, 101>>, <<>>}

\* the compression argument of write_jsonl: omitted (None) or given
WriterCompressionArgs == {None} \cup {Some(c) : c \in CompressionArgs}

\* def write_jsonl(object_uri, lines, compression: str = "zstd")
default_compression(compression_arg) ==
    IF compression_arg = None THEN STR_ZSTD ELSE compression_arg[1]

write_jsonl ==
    /\ w_pc = "idle"
    /\ \E object_uri \in DestinationUris, lines \in WriterLineSeqs,
          compression_arg \in WriterCompressionArgs, mtime \in Mtimes,
          root \in OutRoots, s3_outcome \in S3Outcomes :
        LET compression == default_compression(compression_arg)
            effect == write_jsonl_effect(object_uri, lines, compression, mtime,
                                         root, s3_outcome, w_fs)
        IN /\ w_args' = [compression |-> compression,
                         compression_arg |-> compression_arg,
                         lines |-> lines,
                         mtime |-> mtime,
                         object_uri |-> object_uri]
           /\ w_io' = w_io \o effect.io
           /\ w_fs' = effect.fs
           /\ w_result' = effect.result
           /\ w_pc' = "done"
           /\ UNCHANGED <<notify_vars, encode_vars, thread_vars>>

\* encode_lines called on its own
call_encode_lines ==
    /\ e_pc = "idle"
    /\ \E lines \in LineSeqs, compression \in CompressionArgs, mtime \in Mtimes :
        /\ e_args' = [compression |-> compression, lines |-> lines, mtime |-> mtime]
        /\ e_out' = encode_lines(lines, compression, mtime)
        /\ e_pc' = "done"
        /\ UNCHANGED <<notify_vars, writer_vars, thread_vars>>

----------------------------------------------------------------------------
(* RAGNotifier.__init__ and the module-level helpers *)

\* Python truthiness of an Optional[str] held as code points
truthy_text(opt) == opt # None /\ opt[1] # <<>>

\* str.rstrip(chars) for a single character
RECURSIVE rstrip(_, _)
rstrip(str, ch) ==
    IF str # <<>> /\ str[Len(str)] = ch THEN rstrip(SubSeq(str, 1, Len(str) - 1), ch)
    ELSE str

\* (base_url or os.getenv("RAG_BASE_URL") or "").rstrip("/")
init_base_url_unstripped(base_url, env_base_url) ==
    IF truthy_text(base_url) THEN base_url[1]
    ELSE IF truthy_text(env_base_url) THEN env_base_url[1]
    ELSE <<>>

init_base_url(base_url, env_base_url) ==
    rstrip(IF truthy_text(base_url) THEN base_url[1]
           ELSE IF truthy_text(env_base_url) THEN env_base_url[1]
           ELSE <<>>,
           SLASH)

\* api_key or os.getenv("RAG_API_KEY") or ""
init_api_key(api_key, env_api_key) ==
    IF truthy_str(api_key) THEN api_key[1]
    ELSE IF truthy_str(env_api_key) THEN env_api_key[1]
    ELSE ""

\* None, "", "/", "http://r/"
BaseUrlArgs == {None, Some(<<>>), Some(<<SLASH>>), Some(STR_BASE_URL \o <<SLASH>>)}
\* RAG_BASE_URL unset, "//", "http://s"
EnvBaseUrls == {None, Some(<<SLASH, SLASH>>), Some(STR_BASE_URL_2)}
ApiKeyArgs == {None, Some("secret")}
\* RAG_API_KEY unset, "env-secret"
EnvApiKeys == {None, Some("env-secret")}

NoSelf == [api_key |-> "", base_url |-> <<>>, timeout |-> 0]
NoInit == [base_url |-> None]
ConfigurationError ==
    [error |-> [msg |-> "RAG_BASE_URL is not defined.", status |-> 0, type |-> "RuntimeError"],
     kind |-> "raised"]

\* __init__: on success the caller holds the notifier and goes on at next_pc
construct(base_url, api_key, timeout, env_base_url, env_api_key, next_pc) ==
    LET url == init_base_url(base_url, env_base_url)
    IN /\ n_init' = [api_key |-> api_key,
                     base_url |-> base_url,
                     env_api_key |-> env_api_key,
                     env_base_url |-> env_base_url,
                     timeout |-> timeout]
       /\ IF url = <<>>
          THEN /\ n_pc' = "failed"
               /\ n_result' = ConfigurationError
               /\ n_self' = n_self
          ELSE /\ n_pc' = next_pc
               /\ n_result' = n_result
               /\ n_self' = [api_key |-> init_api_key(api_key, env_api_key),
                             base_url |-> url,
                             timeout |-> timeout]
       /\ UNCHANGED <<transport, n_call, n_attempt, n_log, n_sleeps,
                      writer_vars, encode_vars, thread_vars>>

\* RAGNotifier(base_url=..., api_key=..., timeout=...)
RAGNotifier_init ==
    /\ n_pc = "unconstructed"
    /\ \E base_url \in BaseUrlArgs, api_key \in ApiKeyArgs,
          env_base_url \in EnvBaseUrls, env_api_key \in EnvApiKeys :
        construct(base_url, api_key, 10000, env_base_url, env_api_key, "idle")

\* the helper notify_meeting_created(**kwargs): RAGNotifier() ...
helper_notify_meeting_created_construct ==
    /\ n_pc = "unconstructed"
    /\ \E env_base_url \in EnvBaseUrls, env_api_key \in EnvApiKeys :
        construct(None, None, 10000, env_base_url, env_api_key,
                  "in_notify_meeting_created")

\* ... .notify_meeting_created(**kwargs)
helper_notify_meeting_created_call ==
    /\ n_pc = "in_notify_meeting_created"
    /\ call_notify_meeting_created

\* the helper notify_finalize_ready(**kwargs): RAGNotifier() ...
helper_notify_finalize_ready_construct ==
    /\ n_pc = "unconstructed"
    /\ \E env_base_url \in EnvBaseUrls, env_api_key \in EnvApiKeys :
        construct(None, None, 10000, env_base_url, env_api_key,
                  "in_notify_finalize_ready")

\* ... .notify_finalize_ready(**kwargs)
helper_notify_finalize_ready_call ==
    /\ n_pc = "in_notify_finalize_ready"
    /\ call_notify_finalize_ready

NotifierUnconstructed ==
    /\ transport = <<>>
    /\ n_init = NoInit
    /\ n_self = NoSelf
    /\ n_pc = "unconstructed"
    /\ n_call = NoCall
    /\ n_attempt = 0
    /\ n_log = <<>>
    /\ n_sleeps = <<>>
    /\ n_result = NoResult

----------------------------------------------------------------------------
(* Specifications *)

WriterIdle ==
    /\ w_pc = "idle"
    /\ w_args = NoArgs
    /\ w_io = <<>>
    /\ w_fs = EmptyFs
    /\ w_result = NoResult

EncoderIdle ==
    /\ e_pc = "idle"
    /\ e_args = NoArgs
    /\ e_out = NoResult

NotifierIdle ==
    /\ NotifierConstructed
    /\ n_self.api_key = "secret"

NotifyInit == NotifierConstructed /\ WriterIdle /\ EncoderIdle /\ ThreadsIdle

NotifyNext ==
    \/ notify_meeting_created
    \/ notify_finalize_ready
    \/ post_attempt
    \/ backoff_sleep
    \/ loop_exhausted

\* one notify call on a constructed RAGNotifier
SpecNotify == NotifyInit /\ [][NotifyNext]_vars

WriteInit == NotifierIdle /\ WriterIdle /\ EncoderIdle /\ ThreadsIdle

WriteNext == write_jsonl

\* one write_jsonl call
SpecWrite == WriteInit /\ [][WriteNext]_vars

EncodeInit == NotifierIdle /\ WriterIdle /\ EncoderIdle /\ ThreadsIdle

EncodeNext == call_encode_lines

\* one encode_lines call
SpecEncode == EncodeInit /\ [][EncodeNext]_vars

\* the send routine, entered through notify_finalize_ready
\* (notify_meeting_created enters it the same way, with its own payload)
SendNext ==
    \/ notify_finalize_ready
    \/ post_attempt
    \/ backoff_sleep
    \/ loop_exhausted

\* Each POST attempt and each sleep returns (the attempt is bounded by the
\* client's timeout, the sleep by its duration), and the interpreter goes on
\* to the next statement: once a step of the loop is possible it is taken.
SpecSendFair ==
    /\ NotifyInit
    /\ [][SendNext]_vars
    /\ WF_vars(post_attempt)
    /\ WF_vars(backoff_sleep)
    /\ WF_vars(loop_exhausted)

ThreadsInit == NotifierIdle /\ WriterIdle /\ EncoderIdle /\ ThreadsIdle

ThreadsNext ==
    \E t \in ThreadIds :
        \/ thread_notify_meeting_created(t)
        \/ thread_notify_finalize_ready(t)
        \/ thread_post_attempt(t)
        \/ thread_backoff_sleep(t)
        \/ thread_loop_exhausted(t)

\* two callers, each making one notify call, interleaved in any order
SpecThreads == ThreadsInit /\ [][ThreadsNext]_vars

ConstructInit == NotifierUnconstructed /\ WriterIdle /\ EncoderIdle /\ ThreadsIdle

ConstructNext ==
    \/ RAGNotifier_init
    \/ helper_notify_meeting_created_construct
    \/ helper_notify_meeting_created_call
    \/ helper_notify_finalize_ready_construct
    \/ helper_notify_finalize_ready_call
    \/ notify_finalize_ready
    \/ post_attempt
    \/ backoff_sleep
    \/ loop_exhausted

\* a RAGNotifier is constructed, by the caller or by a module-level helper,
\* and one notify call is made on it
SpecConstruct == ConstructInit /\ [][ConstructNext]_vars

----------------------------------------------------------------------------
(* Properties of the notifier *)

Is2xx(o) == ~o.exc /\ o.status \in 200..299
Is409(o) == ~o.exc /\ o.status = 409
\* a non-2xx/non-409 status, or a transport exception
Failed(o) == o.exc \/ (o.status \notin 200..299 /\ o.status # 409)

CallDone == n_pc = "done"
Returned == n_result.kind = "returned"
Raised == n_result.kind = "raised"

FailsBefore(N) == \A i \in 1..(N - 1) : Failed(transport[i])
AllFail == \A i \in 1..n_call.max_retries : Failed(transport[i])

HasIdemKey(req) == "Idempotency-Key" \in DOMAIN req.headers

\* C1: when the transport fails on attempts 1..N-1 and answers 2xx on
\* attempt N (1 <= N <= max_retries), the call returns normally having made
\* exactly N POST attempts, and all of them carry the same Idempotency-Key.
C1_RetryUntilSuccess ==
    CallDone =>
        \A N \in 1..n_call.max_retries :
            (FailsBefore(N) /\ Is2xx(transport[N])) =>
                /\ Returned
                /\ Len(n_log) = N
                /\ \A i \in 1..N : n_log[i].attempt = i /\ n_log[i].outcome = transport[i]
                /\ \A i \in 1..N : HasIdemKey(n_log[i])
                /\ \A i \in 1..N : \A j \in 1..N :
                       n_log[i].headers["Idempotency-Key"] = n_log[j].headers["Idempotency-Key"]

C1_Witness ==
    /\ CallDone
    /\ n_call.max_retries = 4
    /\ FailsBefore(3)
    /\ Is2xx(transport[3])
    /\ Returned
    /\ Len(n_log) = 3

\* C2: a notify call returns normally only if one of its attempts received a
\* status in [200,300) or 409, for every max_retries including 0 and
\* negative values.
C2_NoSilentDrop ==
    (CallDone /\ Returned) =>
        \E i \in 1..Len(n_log) : Is2xx(n_log[i].outcome) \/ Is409(n_log[i].outcome)

\* C3: with max_retries = M >= 1 and every attempt failing, exactly M
\* attempts are made and the call then raises the failure of attempt M.
C3_AllAttemptsFail ==
    (CallDone /\ n_call.max_retries >= 1 /\ AllFail) =>
        LET M == n_call.max_retries IN
        /\ Len(n_log) = M
        /\ \A i \in 1..M : n_log[i].attempt = i
        /\ Raised
        /\ transport[M].exc => n_result.error.type = "TransportError"
        /\ ~transport[M].exc =>
              /\ n_result.error.type = "RuntimeError"
              /\ n_result.error.status = transport[M].status

C3_Witness ==
    /\ CallDone
    /\ n_call.max_retries = 3
    /\ AllFail
    /\ Raised
    /\ Len(n_log) = 3

\* C4: a 409 answer, like a 2xx answer, on attempt k ends the retry loop at
\* once: the call has returned normally, attempt k is the last one and no
\* sleep follows it.
C4_AcceptedEndsLoop ==
    \A k \in 1..Len(n_log) :
        (Is409(n_log[k].outcome) \/ Is2xx(n_log[k].outcome)) =>
            /\ CallDone
            /\ Returned
            /\ Len(n_log) = k
            /\ Len(n_sleeps) = k - 1
            /\ \A i \in 1..Len(n_sleeps) : n_sleeps[i].after_attempt < k

C4_Witness ==
    /\ CallDone
    /\ n_call.max_retries = 4
    /\ Len(n_log) = 2
    /\ Is409(n_log[2].outcome)
    /\ Returned
    /\ Len(n_sleeps) = 1

\* C5: the i-th sleep follows failed attempt i with i < max_retries and
\* lasts backoff_base * 2^(i-1); attempt i is preceded by exactly i-1
\* sleeps (none before attempt 1) and no sleep follows the last attempt;
\* max_retries = 3, backoff_base = 0.5 s and all attempts failing give the
\* sleeps [0.5 s, 1 s].
C5_BackoffSchedule ==
    /\ \A i \in 1..Len(n_sleeps) :
          /\ n_sleeps[i].after_attempt = i
          /\ i <= Len(n_log)
          /\ Failed(n_log[i].outcome)
          /\ i < n_call.max_retries
          /\ n_sleeps[i].millis =
                IF i = 1 THEN n_call.backoff_base ELSE 2 * n_sleeps[i - 1].millis
    /\ \A i \in 1..Len(n_log) : n_log[i].slept_before = i - 1
    /\ CallDone => Len(n_sleeps) = (IF Len(n_log) = 0 THEN 0 ELSE Len(n_log) - 1)
    /\ (CallDone /\ n_call.max_retries = 3 /\ n_call.backoff_base = 500 /\ AllFail) =>
          [i \in 1..Len(n_sleeps) |-> n_sleeps[i].millis] = <<500, 1000>>

C5_Witness ==
    /\ CallDone
    /\ n_call.max_retries = 4
    /\ n_call.backoff_base = 500
    /\ AllFail
    /\ [i \in 1..Len(n_sleeps) |-> n_sleeps[i].millis] = <<500, 1000, 2000>>

\* the keys of the two event bodies
MeetingCreatedKeys == {"type", "meeting_id", "org_id", "title", "started_at", "metadata"}
FinalizeReadyKeys ==
    {"type", "meeting_id", "org_id", "object_uri", "version", "count", "checksum"}

\* the body the call's arguments determine, field by field
ExpectedBody(body) ==
    LET kw == n_call.kwargs
    IN /\ body.meeting_id = kw.meeting_id
       /\ body.org_id = kw.org_id
       /\ n_call.event = "meeting_created" =>
              /\ DOMAIN body = MeetingCreatedKeys
              /\ body.type = "meeting_created"
              /\ body.title = kw.title
              /\ body.started_at = kw.started_at
              /\ body.metadata = (IF kw.metadata = None THEN {} ELSE kw.metadata[1])
       /\ n_call.event = "finalize_ready" =>
              /\ DOMAIN body = FinalizeReadyKeys
              /\ body.type = "finalize_ready"
              /\ body.object_uri = kw.object_uri
              /\ body.version = kw.version
              /\ body.count = kw.count
              /\ body.checksum = kw.checksum

\* C11: every body sent by notify_meeting_created has exactly the keys type,
\* meeting_id, org_id, title, started_at, metadata with type
\* 'meeting_created', title and started_at null when omitted and metadata
\* an object even when omitted; every body sent by notify_finalize_ready has
\* exactly the keys type, meeting_id, org_id, object_uri, version, count,
\* checksum with type 'finalize_ready'; all attempts of a call send the
\* same body.
C11_BodyShape ==
    /\ \A i \in 1..Len(n_log) : ExpectedBody(n_log[i].json)
    /\ \A i \in 1..Len(n_log) : \A j \in 1..Len(n_log) : n_log[i].json = n_log[j].json

C11_Witness ==
    /\ CallDone
    /\ n_call.event = "meeting_created"
    /\ n_call.kwargs.title = None
    /\ n_call.kwargs.started_at = None
    /\ n_call.kwargs.metadata = None
    /\ Len(n_log) = 3
    /\ n_log[3].json.title = None
    /\ n_log[3].json.metadata = {}
    /\ n_log[1].json = n_log[3].json

\* the idempotency key of caller t's call: the caller's, else the generated one
OwnIdemKey(t) ==
    IF threads[t].idem_arg \in {None, Some("")} THEN threads[t].uuid
    ELSE threads[t].idem_arg[1]

\* the number of attempts a script allows: up to its first accepted answer
RECURSIVE AttemptsAllowed(_, _)
AttemptsAllowed(script, i) ==
    IF i > Len(script) THEN Len(script)
    ELSE IF ~Failed(script[i]) THEN i
    ELSE AttemptsAllowed(script, i + 1)

\* every attempt of caller t so far is t's own request
OwnRequests(t) ==
    LET me == threads[t]
        self == SharedNotifiers[me.notifier]
    IN \A i \in 1..Len(me.log) :
        /\ me.log[i].json.meeting_id = ThreadMeetings[t]
        /\ me.log[i].json.type = me.call.event
        /\ me.log[i].json = me.log[1].json
        /\ me.log[i].headers["Idempotency-Key"] = <<OwnIdemKey(t)>>
        /\ me.log[i].url = self.base_url \o STR_NOTIFY_PATH
        /\ ("Authorization" \in DOMAIN me.log[i].headers) = (self.api_key # "")
        /\ me.log[i].outcome = me.script[i]

\* caller t's attempts and sleeps follow from t's own script alone
OwnSchedule(t) ==
    LET me == threads[t]
        allowed == AttemptsAllowed(me.script, 1)
    IN /\ Len(me.log) <= allowed
       /\ me.pc = "done" =>
              /\ Len(me.log) = allowed
              /\ Len(me.sleeps) = (IF allowed = 0 THEN 0 ELSE allowed - 1)
       /\ \A i \in 1..Len(me.sleeps) :
              /\ me.sleeps[i].after_attempt = i
              /\ me.sleeps[i].millis = me.call.backoff_base * (2 ^ (i - 1))

\* a step of one caller leaves the other caller's frame and the RAGNotifier
\* objects as they were
StepsAreLocal ==
    /\ notifiers' = notifiers
    /\ \A t \in ThreadIds :
           threads'[t] # threads[t] =>
               \A u \in ThreadIds \ {t} : threads'[u] = threads[u]

\* C12: when two notify calls, on one RAGNotifier or on two, run interleaved
\* in any order, every attempt of a call carries that call's payload and
\* idempotency key, the call's attempts and sleeps depend only on its own
\* transport outcomes, and no step changes the other call's state or the
\* notifier objects.
C12_CallsIndependent ==
    /\ [](\A t \in ThreadIds : OwnRequests(t) /\ OwnSchedule(t))
    /\ [][StepsAreLocal]_vars

C12_Witness ==
    /\ threads[1].pc = "sleep"
    /\ threads[2].pc = "sleep"
    /\ threads[1].notifier = threads[2].notifier
    /\ threads[1].call.event = "meeting_created"
    /\ threads[2].call.event = "finalize_ready"
    /\ threads[1].idem_arg = None
    /\ threads[2].idem_arg = None
    /\ Len(threads[1].log) = 1
    /\ Len(threads[2].log) = 1
    /\ threads[1].log[1].headers["Idempotency-Key"]
           # threads[2].log[1].headers["Idempotency-Key"]

\* the base URL the constructor was offered: the argument, else the
\* environment's, when the argument is absent or empty
OfferedBaseUrl ==
    IF n_init.base_url \notin {None, Some(<<>>)} THEN n_init.base_url
    ELSE n_init.env_base_url

\* nothing offered, or nothing left of it without its trailing '/'
NoUsableBaseUrl ==
    \/ OfferedBaseUrl = None
    \/ \A i \in 1..Len(OfferedBaseUrl[1]) : OfferedBaseUrl[1][i] = SLASH

IsConfigurationError(result) ==
    /\ result.kind = "raised"
    /\ result.error.type = "RuntimeError"
    /\ "msg" \in DOMAIN result.error
    /\ result.error.msg = "RAG_BASE_URL is not defined."

\* C13: constructing a RAGNotifier without a usable base URL (none given and
\* none in the environment, or one that is empty once its trailing '/' are
\* stripped) raises the configuration error in the constructor and with a
\* usable one it succeeds; every POST is issued by a notifier whose base URL
\* is non-empty; the configuration error is never the result of a notify
\* call on a constructed notifier.
C13_BaseUrlRequiredAtConstruction ==
    /\ n_pc # "unconstructed" =>
           (NoUsableBaseUrl <=> (n_pc = "failed" /\ IsConfigurationError(n_result)))
    /\ n_pc = "failed" => (n_log = <<>> /\ n_call = NoCall /\ n_self = NoSelf)
    /\ n_log # <<>> => (n_self.base_url # <<>> /\ n_self.base_url[Len(n_self.base_url)] # SLASH)
    /\ \A i \in 1..Len(n_log) : n_log[i].url = n_self.base_url \o STR_NOTIFY_PATH
    /\ IsConfigurationError(n_result) => n_pc = "failed"

\* RAGNotifier(base_url="/") with RAG_BASE_URL=http://s in the environment
C13_Witness ==
    /\ n_pc = "failed"
    /\ n_init.base_url = Some(<<SLASH>>)
    /\ n_init.env_base_url = Some(STR_BASE_URL_2)
    /\ IsConfigurationError(n_result)
    /\ n_log = <<>>

InSendRoutine == n_pc \in {"loop", "sleep", "done"}

\* C17 as stated: a finished send routine has made at most max_retries
\* attempts and at most max_retries - 1 sleeps, for every max_retries.
C17_AsStated ==
    (InSendRoutine /\ CallDone) =>
        /\ Len(n_log) <= n_call.max_retries
        /\ Len(n_sleeps) <= n_call.max_retries - 1

AtLeastZero(n) == IF n < 0 THEN 0 ELSE n

\* C17 as amended: for every max_retries and every sequence of transport
\* outcomes, if each POST attempt and each sleep terminates the send
\* routine eventually returns or raises, and it never makes more than
\* max(max_retries, 0) attempts nor more than max(max_retries - 1, 0) sleeps.
C17_Terminates ==
    /\ [](InSendRoutine =>
             /\ Len(n_log) <= AtLeastZero(n_call.max_retries)
             /\ Len(n_sleeps) <= AtLeastZero(n_call.max_retries - 1))
    /\ (n_pc \in {"loop", "sleep"}) ~> (CallDone /\ (Returned \/ Raised))

C17_Witness ==
    /\ CallDone
    /\ Raised
    /\ n_call.max_retries = 4
    /\ Len(n_log) = 4
    /\ Len(n_sleeps) = 3

----------------------------------------------------------------------------
(* Properties of the writer *)

WriteDone == w_pc = "done"
WriteRaised(msg) == w_result.raised /\ w_result.error.msg = msg
NoIO == w_io = <<>> /\ w_fs = EmptyFs

UriRest(prefix) == SubSeq(w_args.object_uri, Len(prefix) + 1, Len(w_args.object_uri))
IsS3Uri == startswith(w_args.object_uri, STR_S3_PREFIX)
IsOutUri == startswith(w_args.object_uri, STR_OUT_PREFIX)

\* the position of the first "/" of str, 0 when it has none
FirstSlash(str) ==
    IF \E i \in 1..Len(str) : str[i] = SLASH
    THEN CHOOSE i \in 1..Len(str) : str[i] = SLASH /\ \A j \in 1..(i - 1) : str[j] # SLASH
    ELSE 0

\* s3://<bucket>/<key> with a non-empty bucket and a non-empty key
S3WellFormed ==
    /\ IsS3Uri
    /\ FirstSlash(UriRest(STR_S3_PREFIX)) > 1
    /\ FirstSlash(UriRest(STR_S3_PREFIX)) < Len(UriRest(STR_S3_PREFIX))

\* out://<relative path>
OutWellFormed ==
    /\ IsOutUri
    /\ UriRest(STR_OUT_PREFIX) # <<>>
    /\ UriRest(STR_OUT_PREFIX)[1] # SLASH
    /\ UriRest(STR_OUT_PREFIX)[Len(UriRest(STR_OUT_PREFIX))] # SLASH

CompressionIs(names) == w_args.compression \in names
NormalizedCompression == strip(lower(w_args.compression))

\* C6: writing to out://<relative path> with a supported compression
\* succeeds: the file under the root holds exactly the encoded payload and
\* its parent directories exist.
C6_LocalOutputWritten ==
    (WriteDone /\ OutWellFormed /\ CompressionIs({STR_NONE, STR_GZIP})) =>
        LET out_path == STR_DOT \o <<SLASH>> \o UriRest(STR_OUT_PREFIX)
            payload == encode_lines(w_args.lines, w_args.compression, w_args.mtime)
        IN /\ ~w_result.raised
           /\ <<out_path, payload.value>> \in w_fs.files
           /\ \A i \in 2..Len(out_path) :
                  out_path[i] = SLASH => SubSeq(out_path, 1, i - 1) \in w_fs.dirs

C8_S3UriShape ==
    (WriteDone /\ IsS3Uri) =>
        LET rest == UriRest(STR_S3_PREFIX)
            cut == FirstSlash(rest)
        IN IF ~S3WellFormed
           THEN WriteRaised("S3 URI not valid") /\ NoIO
           ELSE /\ ~WriteRaised("S3 URI not valid")
                /\ ~WriteRaised("Non valid or unsupported URI")
                /\ \A i \in 1..Len(w_io) :
                       w_io[i].op = "put_object" =>
                           /\ w_io[i].bucket = SubSeq(rest, 1, cut - 1)
                           /\ w_io[i].key = SubSeq(rest, cut + 1, Len(rest))
                /\ CompressionIs({STR_NONE, STR_GZIP}) =>
                       \E i \in 1..Len(w_io) : w_io[i].op = "put_object"

C8_Witness ==
    /\ WriteDone
    /\ w_args.object_uri = STR_S3_PREFIX \o <<98>>
    /\ WriteRaised("S3 URI not valid")
    /\ NoIO

UnsupportedSchemeError ==
    WriteRaised("Non valid or unsupported URI") \/ WriteRaised("Unsupported URI scheme")

\* C9: a URI whose scheme is neither s3:// nor out:// fails with the
\* unsupported-scheme error and nothing is written; a URI with a recognized
\* scheme never produces the unsupported-scheme error.
C9_UnsupportedScheme ==
    WriteDone =>
        /\ (~IsS3Uri /\ ~IsOutUri) => (UnsupportedSchemeError /\ NoIO)
        /\ (IsS3Uri \/ IsOutUri) => ~UnsupportedSchemeError

PutObjects == {i \in 1..Len(w_io) : w_io[i].op = "put_object"}

\* C15: write_jsonl(object_uri, lines) with a well-formed s3://bucket/key
\* URI and the compression argument left to its default reaches the backend:
\* it issues a put_object of the encoded lines instead of failing before it.
C15_DefaultCompressionWrites ==
    (WriteDone /\ S3WellFormed /\ w_args.compression_arg = None) =>
        /\ PutObjects # {}
        /\ ~WriteRaised("Unsupported compression")

\* the backend write operations of the call: put_object, or the file write
BackendWrites == {i \in 1..Len(w_io) : w_io[i].op \in {"put_object", "write"}}

\* what operation i handed to the backend
Written(i) == IF w_io[i].op = "put_object" THEN w_io[i].body ELSE w_io[i].data

\* C16: a write_jsonl call performs at most one backend write, hands it the
\* complete encoded payload, and when the backend reports a failure the
\* call ends with that error at once: no write follows the failed one.
C16_SingleWholeWrite ==
    WriteDone =>
        /\ Cardinality(BackendWrites) <= 1
        /\ \A i \in BackendWrites :
               /\ i = Len(w_io)
               /\ Return(Written(i))
                      = encode_lines(w_args.lines, w_args.compression, w_args.mtime)
        /\ \A i \in PutObjects :
               IF w_io[i].outcome = "stored" THEN ~w_result.raised
               ELSE w_result.raised /\ w_result.error.type = w_io[i].outcome
        /\ ~w_result.raised => BackendWrites # {}

\* put_object fails with ClientError: the error reaches the caller
C16_Witness ==
    /\ WriteDone
    /\ w_args.object_uri = STR_S3_PREFIX \o <<98, SLASH, 107>>
    /\ w_args.compression = STR_GZIP
    /\ w_args.lines = <<<<97>>, <<98>>>>
    /\ Len(w_io) = 2
    /\ w_io[2].op = "put_object"
    /\ w_io[2].outcome = "ClientError"
    /\ w_result.raised
    /\ w_result.error.type = "ClientError"

----------------------------------------------------------------------------
(* Properties of encode_lines *)

EncodeDone == e_pc = "done"

(* A gzip reader (RFC 1952, RFC 1951) for single-member streams whose       *)
(* DEFLATE body is one final block, stored or with the fixed Huffman codes  *)
(* of literals.                                                             *)

\* the bits of a byte sequence, each byte from its least significant bit up
RECURSIVE unpack_bits(_)
unpack_bits(bytes) ==
    IF bytes = <<>> THEN <<>>
    ELSE [i \in 1..8 |-> (Head(bytes) \div (2 ^ (i - 1))) % 2] \o unpack_bits(Tail(bytes))

\* the value of bits[from .. from + k - 1] read most significant first; -1 past the end
code_at(bits, from, k) ==
    IF from + k - 1 > Len(bits) THEN 0 - 1
    ELSE bits_value([i \in 1..k |-> bits[from + k - i]])

BadStream == [raised |-> TRUE]

\* decode fixed-Huffman symbols from bit position `from` on
RECURSIVE inflate_fixed(_, _, _)
inflate_fixed(bits, from, out) ==
    LET c7 == code_at(bits, from, 7)
        c8 == code_at(bits, from, 8)
        c9 == code_at(bits, from, 9)
    IN IF c7 = 0 THEN Return(out)
       ELSE IF c8 \in 48..191 THEN inflate_fixed(bits, from + 8, Append(out, c8 - 48))
       ELSE IF c9 \in 400..511 THEN inflate_fixed(bits, from + 9, Append(out, c9 - 256))
       ELSE BadStream

inflate_stored(body) ==
    IF Len(body) < 5 THEN BadStream
    ELSE LET len == body[2] + 256 * body[3]
             nlen == body[4] + 256 * body[5]
         IN IF len + nlen # 65535 \/ Len(body) # 5 + len THEN BadStream
            ELSE Return(SubSeq(body, 6, 5 + len))

inflate(body) ==
    IF body = <<>> THEN BadStream
    ELSE LET bits == unpack_bits(body)
         IN IF bits[1] # 1 THEN BadStream
            ELSE IF bits[2] = 0 /\ bits[3] = 0 THEN inflate_stored(body)
            ELSE IF bits[2] = 1 /\ bits[3] = 0 THEN inflate_fixed(bits, 4, <<>>)
            ELSE BadStream

\* gzip.decompress
gunzip(bytes) ==
    IF Len(bytes) < 18 THEN BadStream
    ELSE IF SubSeq(bytes, 1, 4) # <<31, 139, 8, 0>> THEN BadStream
    ELSE LET n == Len(bytes)
             data == inflate(SubSeq(bytes, 11, n - 8))
         IN IF data.raised THEN BadStream
            ELSE IF SubSeq(bytes, n - 7, n - 4) # crc32(data.value) THEN BadStream
            ELSE IF SubSeq(bytes, n - 3, n) # le_bytes(Len(data.value), 4) THEN BadStream
            ELSE data

\* C14: for every sequence of lines, decompressing encode_lines(lines,
\* 'gzip') gives exactly the bytes of encode_lines(lines, 'none').
C14_GzipRoundTrip ==
    (EncodeDone /\ strip(lower(e_args.compression)) = STR_GZIP) =>
        /\ ~e_out.raised
        /\ gunzip(e_out.value) = encode_lines(e_args.lines, STR_NONE, e_args.mtime)

\* ["a", "b"] compressed: the bytes gzip writes for "a\nb\n"
C14_Witness ==
    /\ EncodeDone
    /\ e_args.compression = STR_GZIP
    /\ e_args.lines = <<<<97>>, <<98>>>>
    /\ e_args.mtime = 1700000000
    /\ e_out.value = <<31, 139, 8, 0, 0, 241, 83, 101, 2, 255,
                       75, 228, 74, 226, 2, 0,
                       151, 42, 87, 24, 4, 0, 0, 0>>
    /\ gunzip(e_out.value) = Return(<<97, NEWLINE, 98, NEWLINE>>)

\* the bytes of the lines before line i, each with its newline
RECURSIVE BytesBefore(_, _)
BytesBefore(lines, i) ==
    IF i = 1 THEN 0
    ELSE BytesBefore(lines, i - 1) + Len(utf8_encode(lines[i - 1])) + 1

\* C10: encode_lines(lines, 'none') never raises and is the lines, each
\* followed by one '\n' (so joined by '\n' with one trailing '\n'); [] gives
\* the single newline byte and ['a', 'b'] gives 'a\nb\n'.
C10_EncodeNone ==
    (EncodeDone /\ e_args.compression = STR_NONE) =>
        LET lines == e_args.lines
            n == Len(lines)
        IN /\ ~e_out.raised
           /\ n = 0 => e_out.value = <<NEWLINE>>
           /\ n > 0 => Len(e_out.value) = BytesBefore(lines, n + 1)
           /\ \A i \in 1..n :
                  LET from == BytesBefore(lines, i)
                      bytes == utf8_encode(lines[i])
                  IN /\ SubSeq(e_out.value, from + 1, from + Len(bytes)) = bytes
                     /\ e_out.value[from + Len(bytes) + 1] = NEWLINE
           /\ lines = <<<<97>>, <<98>>>> => e_out.value = <<97, NEWLINE, 98, NEWLINE>>

C10_Witness ==
    /\ EncodeDone
    /\ e_args.compression = STR_NONE
    /\ e_args.lines = <<<<97>>, <<98>>>>
    /\ ~e_out.raised
    /\ e_out.value = <<97, NEWLINE, 98, NEWLINE>>

NewlineFree(lines) ==
    \A i \in 1..Len(lines) : \A j \in 1..Len(lines[i]) : lines[i][j] # NEWLINE

NewlineFreeLineSeqs == {lines \in LineSeqs : NewlineFree(lines)}

CountNewlines(bytes) == Cardinality({i \in 1..Len(bytes) : bytes[i] = NEWLINE})

\* C18: over sequences of newline-free lines encode_lines(., 'none') is
\* injective except for one collision: [] and [''] both encode to the single
\* newline byte; the payload of a non-empty sequence holds exactly
\* len(lines) newline characters and that of [] holds 1.
C18_InjectiveButEmpty ==
    (EncodeDone /\ e_args.compression = STR_NONE /\ NewlineFree(e_args.lines)) =>
        /\ ~e_out.raised
        /\ \A other \in NewlineFreeLineSeqs :
               (other # e_args.lines
                    /\ encode_lines(other, STR_NONE, e_args.mtime) = e_out) =>
                   {other, e_args.lines} = {<<>>, <<<<>>>>}
        /\ e_args.lines \in {<<>>, <<<<>>>>} => e_out.value = <<NEWLINE>>
        /\ CountNewlines(e_out.value)
               = (IF e_args.lines = <<>> THEN 1 ELSE Len(e_args.lines))

\* [''] encodes to the byte [] encodes to
C18_Witness ==
    /\ EncodeDone
    /\ e_args.compression = STR_NONE
    /\ e_args.lines = <<<<>>>>
    /\ e_out = Return(<<NEWLINE>>)
    /\ encode_lines(<<>>, STR_NONE, e_args.mtime) = e_out

====
